---- MODULE Spec2Model ----
(***************************************************************************)
(* WikiCheck API (start.py, modules/api.py) and the NLI trainer            *)
(* (modules/model_trainer.py).                                             *)
(*                                                                         *)
(* The server part models the module-level startup (config, model load,    *)
(* app.run) and the GET handlers of the two namespaces, run by Flask's     *)
(* threaded server: one worker thread per in-flight request, every         *)
(* handler variable a local of its thread, one shared model handle.        *)
(* The trainer part models BertTrainer.train_model.                        *)
(***************************************************************************)
EXTENDS Integers, Sequences, FiniteSets, TLC

\* ---------------------------------------------------------------- bounds
NumThreads == 2        \* worker threads handling requests at the same time
MaxCandidates == 2     \* evidence candidates retrieved for one claim
MaxEpochs == 3         \* number_of_epochs passed to train_model

Threads == 1..NumThreads

\* ------------------------------------------------------------ data values
None == "None"                       \* Python's None / an absent query key
Texts == {"a", "b"}                  \* non-empty claim texts
Hyps == {"h"}                        \* non-empty hypothesis texts
FactClaims == {"a"}                  \* non-empty claims sent to the fact checker
Corpus == {"s1", "s2"}               \* evidence sentences the retrieval can return
Malformed == {"s2"}                  \* candidates on which the pairwise inference fails
TextParam == {None, ""} \cup Texts
HypParam == {None, ""} \cup Hyps

Apps == {"start", "api"}             \* the two entry points of the repository

VARIABLES
    app,             \* which entry point runs: start.py or modules/api.py
    mainPc,          \* position of the module-level code
    complex_model,   \* the process-wide model handle (api.py names it model)
    loads,           \* number of model constructions so far
    pc,              \* per thread: position in the handler
    route,           \* per thread: namespace of the request being handled
    args,            \* per thread: request.args (the query string)
    text,            \* per thread: local text
    hypothesis,      \* per thread: local hypothesis
    claim,           \* per thread: local claim
    everFailed,      \* history: some predict call has raised
    sent,            \* history: the last HTTP exchange completed (afterFail: a predict
                     \* call had raised before this one was answered)
    served,          \* history: the Verdicts returned by /nli_model/ so far
    tpc,             \* trainer: position in train_model
    number_of_epochs,
    i,               \* trainer: loop variable of train_model
    fits,            \* trainer: fits performed on self.model so far
    log,             \* trainer history: fit / evaluate calls in order
    validation_performance,
    test_performance,
    returned         \* trainer: value returned by train_model

serverVars == <<app, mainPc, complex_model, loads, pc, route, args, text, hypothesis,
                claim, everFailed, sent, served>>
trainVars == <<tpc, number_of_epochs, i, fits, log, validation_performance,
               test_performance, returned>>
vars == <<serverVars, trainVars>>

\* ------------------------------------------------------------ model handle
NoModel == [id |-> 0, artifact |-> 0]

\* WikiFactChecker(config, logger) / SentenceBertModel(logger, **config): the handle
\* a successful load returns.
LoadedModel == [id |-> 1, artifact |-> 1]

Labels == <<"entailment", "contradiction", "neutral">>

\* Embedder: text -> vector (a black box; one number per known text).
Embed(s) ==
    CASE s = "a" -> 1
      [] s = "b" -> 2
      [] s = "h" -> 3
      [] s = "s1" -> 4
      [] s = "s2" -> 5
      [] OTHER -> 0

\* label = argmax of the three probabilities, ties broken entailment > contradiction > neutral.
ArgMax(e, c, n) ==
    IF e >= c /\ e >= n THEN Labels[1]
    ELSE IF c >= n THEN Labels[2] ELSE Labels[3]

\* Classifier head on the embedded pair, with the weights of the loaded artifact.
Classify(m, u, v) ==
    LET e == 10 * u + v + m.artifact
        c == 2 * v + u
        n == 100 - e - c
    IN [label |-> ArgMax(e, c, n), entailment_prob |-> e,
        contradiction_prob |-> c, neutral_prob |-> n]

\* model.predict(text, hypothesis): a pure function of the pair and the artifact.
predict(m, x, h) == Classify(m, Embed(x), Embed(h))

\* ------------------------------------------------------------ input checks
InvalidInputError == "InvalidInputError"

\* check_if_none(value): absent or empty input is refused, anything else returned.
check_if_none(v) == IF v = None \/ v = "" THEN InvalidInputError ELSE v

\* ------------------------------------------------------------ requests
Query(x, c, h) == [text |-> x, claim |-> c, hypothesis |-> h]

\* Query strings sent to /nli_model/: the first text under `text` or under `claim`.
NliQueries ==
    {Query(x, None, h) : x \in TextParam, h \in HypParam}
    \cup {Query(None, c, h) : c \in {""} \cup Texts, h \in HypParam}

\* Query strings sent to /fact_checking_model/.
FactQueries == {Query(None, c, None) : c \in {None, ""} \cup FactClaims}

\* ------------------------------------------------------------ responses
NoBody == <<>>
Response(k, st, b) == [kind |-> k, status |-> st, body |-> b]
NoResponse == Response("none", 0, NoBody)

\* An InvalidInputError surfaces as a client error.
ClientError == Response("client_error", 400, NoBody)

\* An exception no handler catches leaves get(); the framework answers 500.
InternalError == Response("inference_error", 500, NoBody)

Field(r, f) == IF f \in DOMAIN r THEN r[f] ELSE None

\* marshal with the `model_response` fields.
MarshalResponse(r) ==
    [label |-> Field(r, "label"),
     contradiction_prob |-> Field(r, "contradiction_prob"),
     entailment_prob |-> Field(r, "entailment_prob"),
     neutral_prob |-> Field(r, "neutral_prob")]

\* marshal with the `Record` fields.
MarshalRecord(r) ==
    [claim |-> Field(r, "claim"), text |-> Field(r, "text"),
     article |-> Field(r, "article"), label |-> Field(r, "label"),
     contradiction_prob |-> Field(r, "contradiction_prob"),
     entailment_prob |-> Field(r, "entailment_prob"),
     neutral_prob |-> Field(r, "neutral_prob")]

\* marshal with the `Result` fields: {'results': [...]}.
MarshalResult(d) == [k \in 1..Len(d.results) |-> MarshalRecord(d.results[k])]

NoCall == <<>>
Exchange(r, q, cl, cs, fl, rs, af) ==
    [route |-> r, args |-> q, called |-> cl, cands |-> cs,
     failed |-> fl, resp |-> rs, afterFail |-> af]
NoExchange == Exchange("none", Query(None, None, None), NoCall, <<>>, {}, NoResponse, FALSE)


\* ------------------------------------------------------------ startup
Routes(a) == IF a = "start" THEN {"nli_model", "fact_checking_model"} ELSE {"nli_model"}

NoQuery == Query(None, None, None)

InitServer ==
    /\ app \in Apps
    /\ mainPc = "load"
    /\ complex_model = NoModel
    /\ loads = 0
    /\ pc = [t \in Threads |-> "idle"]
    /\ route = [t \in Threads |-> "none"]
    /\ args = [t \in Threads |-> NoQuery]
    /\ text = [t \in Threads |-> None]
    /\ hypothesis = [t \in Threads |-> None]
    /\ claim = [t \in Threads |-> None]
    /\ everFailed = FALSE
    /\ sent = NoExchange
    /\ served = {}

\* The constructor returns: the module-level name is bound to the handle.
LoadModel ==
    /\ mainPc = "load"
    /\ complex_model' = LoadedModel
    /\ loads' = loads + 1
    /\ mainPc' = "loaded"
    /\ UNCHANGED <<app, pc, route, args, text, hypothesis, claim, everFailed, sent, served>>
    /\ UNCHANGED trainVars

\* Mutant: the exception of the constructor is swallowed and startup goes on.
LoadModelRaises_Swallowed ==
    /\ mainPc = "load"
    /\ mainPc' = "loaded"
    /\ UNCHANGED <<app, complex_model, loads, pc, route, args, text, hypothesis, claim,
                   everFailed, sent, served>>
    /\ UNCHANGED trainVars

\* The constructor raises: nothing at module level catches it, the interpreter exits
\* before the lines that build and run the app.
LoadModelRaises ==
    /\ mainPc = "load"
    /\ mainPc' = "aborted"
    /\ UNCHANGED <<app, complex_model, loads, pc, route, args, text, hypothesis, claim,
                   everFailed, sent, served>>
    /\ UNCHANGED trainVars

\* app = Flask(...), the namespaces and routes, then app.run(threaded=True).
AppRun ==
    /\ mainPc = "loaded"
    /\ mainPc' = "serving"
    /\ UNCHANGED <<app, complex_model, loads, pc, route, args, text, hypothesis, claim,
                   everFailed, sent, served>>
    /\ UNCHANGED trainVars

\* ------------------------------------------------------------ handlers
\* The thread's locals once its response is sent.
Release(t) ==
    /\ pc' = [pc EXCEPT ![t] = "idle"]
    /\ route' = [route EXCEPT ![t] = "none"]
    /\ args' = [args EXCEPT ![t] = NoQuery]
    /\ text' = [text EXCEPT ![t] = None]
    /\ hypothesis' = [hypothesis EXCEPT ![t] = None]
    /\ claim' = [claim EXCEPT ![t] = None]

\* Mutant: a handler rebinds the module-level handle.
complex_model_reassigned(m) == [m EXCEPT !.id = 2]

\* The handlers hold no assignment to the module-level handle.
complex_model_after_get(m) == m

\* Mutant: hypothesis is passed on unchecked.
NliInputs_HypothesisUnchecked(q) == <<check_if_none(q.text), q.hypothesis>>

\* Mutant: only an absent hypothesis is refused, an empty one passes.
NliInputs_EmptyHypothesisPasses(q) ==
    <<check_if_none(q.text), IF q.hypothesis = None THEN InvalidInputError ELSE q.hypothesis>>

\* text = check_if_none(request.args.get('text'));
\* hypothesis = check_if_none(request.args.get('hypothesis'))
NliInputs(q) == <<check_if_none(q.text), check_if_none(q.hypothesis)>>

\* claim = check_if_none(request.args.get('claim'))
FactInput(q) == check_if_none(q.claim)

\* Mutant: text and hypothesis live in variables shared by the threads, so the
\* call sees what another in-flight request wrote.
PredictArgs_Shared(t) ==
    LET others == {u \in Threads : u # t /\ pc[u] = "predict"}
    IN IF others = {} THEN <<text[t], hypothesis[t]>>
       ELSE LET u == CHOOSE o \in others : TRUE IN <<text[u], hypothesis[u]>>

\* The arguments of the predict call: the thread's own locals.
PredictArgs(t) == <<text[t], hypothesis[t]>>

\* Mutant: the last Verdict is kept and returned again while it is the latest answer.
NliResult_Cached(t) ==
    IF sent.resp.kind = "verdict" THEN sent.resp.body
    ELSE predict(complex_model, text[t], hypothesis[t])

\* result = complex_model.model_level_two.predict(text, hypothesis)
NliResult(t) == predict(complex_model, PredictArgs(t)[1], PredictArgs(t)[2])

\* Mutant: the exception is caught and a default Verdict returned.
RaisedResponse_DefaultVerdict ==
    Response("verdict", 200,
             [label |-> Labels[3], contradiction_prob |-> 0, entailment_prob |-> 0,
              neutral_prob |-> 100])

\* No try/except around the model call: the exception leaves get().
RaisedResponse == InternalError

Remember(x, h, b) ==
    IF \E r \in served : r.text = x /\ r.hypothesis = h /\ r.body = b
    THEN {IF r.text = x /\ r.hypothesis = h /\ r.body = b
          THEN [r EXCEPT !.again = TRUE] ELSE r : r \in served}
    ELSE served \cup {[text |-> x, hypothesis |-> h, body |-> b, again |-> FALSE]}

\* GET /nli_model/, up to the model call: read and check the two parameters.
NliGet(t, q) ==
    /\ mainPc = "serving"
    /\ "nli_model" \in Routes(app)
    /\ pc[t] = "idle"
    /\ LET in == NliInputs(q) IN
       IF in[1] = InvalidInputError \/ in[2] = InvalidInputError
       THEN /\ sent' = Exchange("nli_model", q, NoCall, <<>>, {}, ClientError, everFailed)
            /\ UNCHANGED <<pc, route, args, text, hypothesis, claim>>
       ELSE /\ pc' = [pc EXCEPT ![t] = "predict"]
            /\ route' = [route EXCEPT ![t] = "nli_model"]
            /\ args' = [args EXCEPT ![t] = q]
            /\ text' = [text EXCEPT ![t] = in[1]]
            /\ hypothesis' = [hypothesis EXCEPT ![t] = in[2]]
            /\ UNCHANGED <<claim, sent>>
    /\ UNCHANGED <<app, mainPc, complex_model, loads, everFailed, served>>
    /\ UNCHANGED trainVars

\* GET /nli_model/, the model call and the return.
NliPredict(t) ==
    /\ pc[t] = "predict"
    /\ route[t] = "nli_model"
    /\ \/ /\ sent' = Exchange("nli_model", args[t], PredictArgs(t), <<>>, {},
                              Response("verdict", 200, MarshalResponse(NliResult(t))),
                              everFailed)
          /\ served' = Remember(args[t].text, args[t].hypothesis, MarshalResponse(NliResult(t)))
          /\ UNCHANGED everFailed
       \/ /\ sent' = Exchange("nli_model", args[t], PredictArgs(t), <<>>, {1},
                              RaisedResponse, everFailed)
          /\ everFailed' = TRUE
          /\ UNCHANGED served
    /\ complex_model' = complex_model_after_get(complex_model)
    /\ Release(t)
    /\ UNCHANGED <<app, mainPc, loads>>
    /\ UNCHANGED trainVars

\* ------------------------------------------------------------ fact checking
Article(s) == IF s = "s1" THEN "A1" ELSE "A2"

RECURSIVE SeqsUpTo(_, _)
SeqsUpTo(S, n) ==
    IF n = 0 THEN {<<>>}
    ELSE LET shorter == SeqsUpTo(S, n - 1)
         IN shorter \cup {Append(q, x) : q \in {r \in shorter : Len(r) = n - 1}, x \in S}

\* What the retrieval can hand to the pairwise inference.
CandidateSeqs == SeqsUpTo(Corpus, MaxCandidates)

\* One entry of predict_all: the pair's Verdict, or the report of its failure.
Entry(m, c, s) ==
    IF s \in Malformed
    THEN [claim |-> c, text |-> s, article |-> Article(s), error |-> "InferenceError"]
    ELSE LET v == predict(m, c, s)
         IN [claim |-> c, text |-> s, article |-> Article(s), label |-> v.label,
             contradiction_prob |-> v.contradiction_prob,
             entailment_prob |-> v.entailment_prob, neutral_prob |-> v.neutral_prob]

\* complex_model.predict_all(claim): one entry per candidate, in candidate order.
predict_all(m, c, cs) == [k \in 1..Len(cs) |-> Entry(m, c, cs[k])]

\* Mutant: entries whose inference failed are left out of the response.
ResultsDict_DropFailed(result) ==
    [results |-> SelectSeq(result, LAMBDA e : "error" \notin DOMAIN e)]

\* return {'results': result}
ResultsDict(result) == [results |-> result]

\* GET /fact_checking_model/, up to the model call.
FactGet(t, q) ==
    /\ mainPc = "serving"
    /\ "fact_checking_model" \in Routes(app)
    /\ pc[t] = "idle"
    /\ LET c == FactInput(q) IN
       IF c = InvalidInputError
       THEN /\ sent' = Exchange("fact_checking_model", q, NoCall, <<>>, {},
                                ClientError, everFailed)
            /\ UNCHANGED <<pc, route, args, text, hypothesis, claim>>
       ELSE /\ pc' = [pc EXCEPT ![t] = "predict_all"]
            /\ route' = [route EXCEPT ![t] = "fact_checking_model"]
            /\ args' = [args EXCEPT ![t] = q]
            /\ claim' = [claim EXCEPT ![t] = c]
            /\ UNCHANGED <<text, hypothesis, sent>>
    /\ UNCHANGED <<app, mainPc, complex_model, loads, everFailed, served>>
    /\ UNCHANGED trainVars

\* GET /fact_checking_model/, the model call and the return.
FactPredictAll(t) ==
    /\ pc[t] = "predict_all"
    /\ route[t] = "fact_checking_model"
    /\ \E cs \in CandidateSeqs :
         LET fl == {k \in 1..Len(cs) : cs[k] \in Malformed}
             result == predict_all(complex_model, claim[t], cs) IN
         /\ sent' = Exchange("fact_checking_model", args[t], <<claim[t]>>, cs, fl,
                             Response("results", 200, MarshalResult(ResultsDict(result))),
                             everFailed)
         /\ everFailed' = (everFailed \/ fl # {})
    /\ complex_model' = complex_model_after_get(complex_model)
    /\ Release(t)
    /\ UNCHANGED <<app, mainPc, loads, served>>
    /\ UNCHANGED trainVars

\* ------------------------------------------------------------ trainer
Scores == {0, 1}                     \* accuracies an evaluation can report

InitTrainerIdle ==
    /\ tpc = "idle"
    /\ number_of_epochs = 0
    /\ i = 0
    /\ fits = 0
    /\ log = <<>>
    /\ validation_performance = <<>>
    /\ test_performance = <<>>
    /\ returned = <<>>

\* train_model(number_of_epochs = n) is called on a prepared trainer.
InitTrainer ==
    /\ tpc = "start"
    /\ number_of_epochs \in 0..MaxEpochs
    /\ i = 0
    /\ fits = 0
    /\ log = <<>>
    /\ validation_performance = <<>>
    /\ test_performance = <<>>
    /\ returned = <<>>

\* Mutant: the loop runs one epoch too many.
range_exhausted_OffByOne(k, n) == k > n

\* for i in range(number_of_epochs): the loop ends once k iterations of n are done.
range_exhausted(k, n) == k >= n

\* warmup steps, objectives, the two empty lists and the two evaluators.
TrainBegin ==
    /\ tpc = "start"
    /\ validation_performance' = <<>>
    /\ test_performance' = <<>>
    /\ tpc' = "loop"
    /\ UNCHANGED <<number_of_epochs, i, fits, log, returned>>
    /\ UNCHANGED serverVars

\* self.model.fit(train_objectives=train_objectives)
TrainFit ==
    /\ tpc = "loop"
    /\ ~range_exhausted(i, number_of_epochs)
    /\ fits' = fits + 1
    /\ log' = Append(log, <<"fit", fits + 1, 0>>)
    /\ tpc' = "eval_dev"
    /\ UNCHANGED <<number_of_epochs, i, validation_performance, test_performance, returned>>
    /\ UNCHANGED serverVars

\* validation_performance.append(self.model.evaluate(dev_evaluator))
TrainEvalDev ==
    /\ tpc = "eval_dev"
    /\ \E acc \in Scores :
         /\ validation_performance' = Append(validation_performance, acc)
         /\ log' = Append(log, <<"dev", fits, acc>>)
    /\ tpc' = "eval_test"
    /\ UNCHANGED <<number_of_epochs, i, fits, test_performance, returned>>
    /\ UNCHANGED serverVars

\* test_performance.append(self.model.evaluate(test_evaluator)), the prints, next i.
TrainEvalTest ==
    /\ tpc = "eval_test"
    /\ \E acc \in Scores :
         /\ test_performance' = Append(test_performance, acc)
         /\ log' = Append(log, <<"test", fits, acc>>)
    /\ i' = i + 1
    /\ tpc' = "loop"
    /\ UNCHANGED <<number_of_epochs, fits, validation_performance, returned>>
    /\ UNCHANGED serverVars

\* return validation_performance, test_performance
TrainReturn ==
    /\ tpc = "loop"
    /\ range_exhausted(i, number_of_epochs)
    /\ returned' = <<validation_performance, test_performance>>
    /\ tpc' = "done"
    /\ UNCHANGED <<number_of_epochs, i, fits, log, validation_performance, test_performance>>
    /\ UNCHANGED serverVars

Init == InitServer /\ InitTrainerIdle

Next ==
    \/ LoadModel
    \/ LoadModelRaises
    \/ AppRun
    \/ \E t \in Threads : \E q \in NliQueries : NliGet(t, q)
    \/ \E t \in Threads : NliPredict(t)
    \/ \E t \in Threads : \E q \in FactQueries : FactGet(t, q)
    \/ \E t \in Threads : FactPredictAll(t)

Spec == Init /\ [][Next]_vars

TrainInit == InitServer /\ InitTrainer

TrainNext ==
    \/ TrainBegin
    \/ TrainFit
    \/ TrainEvalDev
    \/ TrainEvalTest
    \/ TrainReturn

SpecTrain == TrainInit /\ [][TrainNext]_vars

\* ================================================================ claims
Missing(v) == v = None \/ v = ""
Idle == \A t \in Threads : pc[t] = "idle"

\* The Verdict the pipeline computes for a pair, as it leaves the handler.
VerdictFor(x, h) == MarshalResponse(predict(LoadedModel, x, h))

\* C1: a GET /nli_model/ whose first text parameter (the `text` key the handler
\* reads) or whose `hypothesis` is absent or empty is answered with a client error
\* (4xx, no body), never with a Verdict.
C1_MissingInputIsClientError ==
    (sent.route = "nli_model"
        /\ (Missing(sent.args.text) \/ Missing(sent.args.hypothesis)))
    => /\ sent.resp.kind = "client_error"
       /\ sent.resp.status \in 400..499
       /\ sent.resp.body = NoBody

C1_Witness ==
    /\ sent.route = "nli_model"
    /\ sent.args.text \in Texts
    /\ sent.args.hypothesis = None
    /\ sent.resp.kind = "client_error"

\* C2: for a /nli_model/ request with a non-empty claim and an empty hypothesis no
\* thread ever reaches the model call, and the exchange ends as a client error with
\* no predict call made.
C2_NoPredictOnEmptyHypothesis ==
    /\ \A t \in Threads :
         pc[t] = "predict" => ~Missing(args[t].hypothesis)
    /\ (sent.route = "nli_model"
           /\ (sent.args.text \in Texts \/ sent.args.claim \in Texts)
           /\ sent.args.hypothesis = "")
       => (sent.called = NoCall /\ sent.resp.kind = "client_error")

C2_Witness ==
    /\ sent.route = "nli_model"
    /\ sent.args.text \in Texts
    /\ sent.args.hypothesis = ""
    /\ sent.called = NoCall
    /\ sent.resp.kind = "client_error"

\* C3: a GET /nli_model/ carrying non-empty `claim` and `hypothesis` has exactly
\* these two values passed to predict and is answered with the Verdict of that pair
\* (or with the inference error when predict raises).
C3_ClaimAndHypothesisGiveVerdict ==
    (sent.route = "nli_model"
        /\ sent.args.claim \in Texts
        /\ sent.args.hypothesis \in Hyps)
    => /\ sent.called = <<sent.args.claim, sent.args.hypothesis>>
       /\ sent.resp.kind \in {"verdict", "inference_error"}
       /\ sent.resp.kind = "verdict"
             => sent.resp.body = VerdictFor(sent.args.claim, sent.args.hypothesis)

C5_Inv ==
    /\ mainPc = "serving" => (loads = 1 /\ complex_model = LoadedModel)
    /\ (~Idle \/ sent # NoExchange) => mainPc = "serving"
    /\ mainPc = "aborted" => (complex_model = NoModel /\ Idle /\ sent = NoExchange)

\* C5: requests are handled only while the server runs, the server runs only with
\* the model loaded, and a failed model construction leaves the process aborted
\* for good, with no request ever handled.
C5_NoTrafficBeforeLoad ==
    /\ []C5_Inv
    /\ [][mainPc = "aborted" => mainPc' = "aborted"]_vars

C5_Witness == mainPc = "aborted" /\ loads = 0

C9_OwnParametersOnly ==
    /\ \A t \in Threads :
         /\ pc[t] = "predict"
              => (text[t] = args[t].text /\ hypothesis[t] = args[t].hypothesis)
         /\ pc[t] = "predict_all" => claim[t] = args[t].claim
    /\ sent.route = "nli_model" /\ sent.called # NoCall
         => sent.called = <<sent.args.text, sent.args.hypothesis>>
    /\ sent.resp.kind = "verdict"
         => sent.resp.body = VerdictFor(sent.args.text, sent.args.hypothesis)
    /\ sent.resp.kind = "results"
         => /\ sent.called = <<sent.args.claim>>
            /\ \A k \in 1..Len(sent.resp.body) :
                 sent.resp.body[k].claim = sent.args.claim

C9_Witness ==
    /\ sent.resp.kind = "verdict"
    /\ \E t \in Threads : pc[t] = "predict" /\ text[t] # sent.args.text
    /\ \E t \in Threads : pc[t] = "predict_all"

\* C10: train_model runs fit, dev evaluation, test evaluation in this order once
\* per epoch, epoch after epoch, and returns two lists of number_of_epochs
\* entries, the j-th being the evaluations made after the j-th fit.
C10_TrainModelEpochs ==
    /\ \A k \in 1..Len(log) :
         /\ log[k][1] = <<"fit", "dev", "test">>[((k - 1) % 3) + 1]
         /\ log[k][2] = ((k - 1) \div 3) + 1
    /\ Len(log) <= 3 * number_of_epochs
    /\ tpc = "done"
         => /\ Len(log) = 3 * number_of_epochs
            /\ Len(returned[1]) = number_of_epochs
            /\ Len(returned[2]) = number_of_epochs
            /\ \A j \in 1..number_of_epochs :
                 /\ log[3 * j - 1] = <<"dev", j, returned[1][j]>>
                 /\ log[3 * j] = <<"test", j, returned[2][j]>>

C10_Witness ==
    /\ tpc = "done"
    /\ number_of_epochs >= 2
    /\ returned[1] # returned[2]

====
